---- MODULE Spec2Model ----
(***************************************************************************)
(* Model of the App component of subtranslatorReact (src/App.tsx): its     *)
(* state, the callbacks it hands to its sections (upload, onNext, onBack,  *)
(* the settings setters, onStart, onRestart, onClear) and the handler      *)
(* handleStartProcessing with its helper processBatch and the history sink *)
(* addToHistory.                                                           *)
(*                                                                         *)
(* The handler is an async function: each invocation is a run with its own *)
(* closure (the files, history and settings of the render it was created   *)
(* in) and its own locals, and nothing keeps a second invocation from      *)
(* starting while an earlier one is suspended.  JavaScript runs one task   *)
(* at a time: every action of a run is the code between two suspension     *)
(* points (an await of readFileAsText, or the await of one translateBatch  *)
(* call), split at the loop heads and at the call of localStorage.setItem, *)
(* which returns or throws.                                                *)
(* A user event is an action of its own; a behaviour holds as many as its  *)
(* budget allows.  The hooks isDarkMode, previewFile and historyOpen reach  *)
(* no statement of the handler, and prompt only the argument list of       *)
(* translateBatch, whose reply is left open: they are no state of the      *)
(* model.                                                                  *)
(* Text is a sequence of one-character strings so that the SDH regular     *)
(* expression and String.trim are computed, not assumed.                   *)
(***************************************************************************)
EXTENDS Integers, Sequences, FiniteSets, TLC

\* ------------------------------------------------------------------ bounds
MaxFiles == 2
\* a batch of at most SmallBatch texts gets every reply over ReplyTexts
SmallBatch == 2
\* invocations of handleStartProcessing that are suspended at the same time
MaxRuns == 2
\* user events (clicks, uploads, settings changes) in one behaviour
MaxClicks == 5
\* user events in one behaviour that starts with the large upload
BigClicks == 2

\* ------------------------------------------------------- program constants
BATCH_SIZE == 100
CONCURRENT_LIMIT == 5
HISTORY_LIMIT == 20
PROGRESS_CAP == 99
PROGRESS_DONE == 100
UPLOAD == 1
SETTINGS == 2
RESULTS == 3

NULL == "null"
UNDEFINED == "undefined"

\* ------------------------------------------------------------ text helpers
Min(a, b) == IF a < b THEN a ELSE b

Range(s) == {s[x] : x \in DOMAIN s}

\* Array.prototype.slice(from, to) with 0-based, end-exclusive indices
Slice(s, from, to) == SubSeq(s, from + 1, Min(to, Len(s)))

\* a character with no escape in a TLA+ string is written by its code point
VT == "U+000B"
NBSP == "U+00A0"
BOM == "U+FEFF"
LS == "U+2028"
PS == "U+2029"

\* the Unicode space separators (category Zs) other than blank and NBSP
SpaceSeparators ==
    { "U+1680", "U+2000", "U+2001", "U+2002", "U+2003", "U+2004", "U+2005",
      "U+2006", "U+2007", "U+2008", "U+2009", "U+200A", "U+202F", "U+205F",
      "U+3000" }

\* LineTerminator of ECMAScript: what "." of a regular expression refuses
IsLineTerminator(c) == c \in {"\n", "\r", LS, PS}

\* white space as String.prototype.trim sees it: WhiteSpace and LineTerminator
IsSpace(c) ==
    \/ c \in {"\t", VT, "\f", " ", NBSP, BOM}
    \/ c \in SpaceSeparators
    \/ IsLineTerminator(c)

RECURSIVE TrimLeft(_)
TrimLeft(s) ==
    IF s = <<>> THEN <<>>
    ELSE IF IsSpace(Head(s)) THEN TrimLeft(Tail(s)) ELSE s

RECURSIVE TrimRight(_)
TrimRight(s) ==
    IF s = <<>> THEN <<>>
    ELSE IF IsSpace(s[Len(s)]) THEN TrimRight(SubSeq(s, 1, Len(s) - 1)) ELSE s

Trim(s) == TrimRight(TrimLeft(s))

\* end of the lazy match of  open .*? close  at the head of s, 0 when the
\* expression does not match there ("." does not match a line terminator)
MatchEnd(s, open, close) ==
    IF s = <<>> \/ Head(s) # open THEN 0
    ELSE LET closers == {j \in 2..Len(s) : s[j] = close}
         IN  IF closers = {} THEN 0
             ELSE LET j == CHOOSE x \in closers : \A y \in closers : x <= y
                  IN  IF \E m \in 2..(j - 1) : IsLineTerminator(s[m]) THEN 0 ELSE j

\* s.replace(/\[.*?\]|\(.*?\)/g, '')
RECURSIVE ReplaceSDH(_)
ReplaceSDH(s) ==
    IF s = <<>> THEN <<>>
    ELSE LET sq == MatchEnd(s, "[", "]")
             rd == MatchEnd(s, "(", ")")
         IN  IF sq # 0 THEN ReplaceSDH(SubSeq(s, sq + 1, Len(s)))
             ELSE IF rd # 0 THEN ReplaceSDH(SubSeq(s, rd + 1, Len(s)))
             ELSE <<Head(s)>> \o ReplaceSDH(Tail(s))

\* the body of parsed.forEach at "3. Optional: Remove SDH"
StripEntry(p) ==
    IF p.text # <<>> THEN [p EXCEPT !.text = Trim(ReplaceSDH(p.text))] ELSE p

RemoveSDHStep(entries, enabled) ==
    IF enabled THEN [e \in DOMAIN entries |-> StripEntry(entries[e])]
    ELSE entries

\* ------------------------------------------------------------ sample input
Cue(n, t) ==
    [id |-> n, timestamp |-> n, text |-> t, isHeader |-> FALSE, isMalformed |-> FALSE]
Header(t) ==
    [id |-> 0, timestamp |-> 0, text |-> t, isHeader |-> TRUE, isMalformed |-> FALSE]
Malformed(t) ==
    [id |-> 0, timestamp |-> 0, text |-> t, isHeader |-> FALSE, isMalformed |-> TRUE]

\* six batches: CONCURRENT_LIMIT full ones and a short last one
BigLen == BATCH_SIZE * CONCURRENT_LIMIT + 5

BigEntry(n) ==
    IF n = 1 THEN Header(<<"[", "a", "]", "\n", "b">>)
    ELSE IF n = 50 THEN Malformed(<<"b", " ", "(", "a", ")">>)
    ELSE IF n = 100 THEN Cue(n, <<"(", "a", ")">>)
    ELSE IF n = 200 THEN Cue(n, <<" ", "\t">>)
    ELSE IF n % 3 = 0 THEN Cue(n, <<"a">>)
    ELSE IF n % 3 = 1 THEN Cue(n, <<"[", "a", "]", "b">>)
    ELSE Cue(n, <<"b">>)

DocNames == {"a.srt", "e.vtt"}
BigDoc == "big.ass"

\* what parseSubtitles returns for the text of each sample document
ParseOutput(doc) ==
    IF doc = "a.srt" THEN
        << Header(<<"[", "a", "]">>),
           Cue(1, <<"[", "a", "]", " ", "b">>),
           Malformed(<<"(", "a", ")", " ", "b">>),
           Cue(2, <<"(", "b", ")">>),
           Cue(3, <<"\t", "\r", "\n">>) >>
    ELSE IF doc = "e.vtt" THEN
        << Header(<<"\t", "a", "\r">>),
           Cue(1, <<"[", "\r", "a", "]">>),
           Cue(2, <<>>),
           Cue(3, <<NBSP, "\f">>) >>
    ELSE [n \in 1..BigLen |-> BigEntry(n)]

\* ---------------------------------------------------------------- state
VARIABLES
    step, files, sourceLang, targetLang, removeSDH,     \* useState values
    isProcessing, progress, currentProcessingFile, history,
    runs,               \* slot -> an invocation of handleStartProcessing
    shelf,              \* the upload lists the user picks from
    budget              \* the user events left in this behaviour

vars == << step, files, sourceLang, targetLang, removeSDH, isProcessing,
           progress, currentProcessingFile, history, runs, shelf, budget >>

uiVars == << sourceLang, targetLang, removeSDH >>

\* the values the handler writes besides `files` and `history`
runVars == << step, isProcessing, progress, currentProcessingFile >>

Slots == 1..MaxRuns

Languages == {"English", "Uzbek"}

\* ------------------------------------------------------------- progress
\* setProgress takes a JavaScript number; the model keeps it exact, as a
\* fraction in lowest terms
RECURSIVE GCD(_, _)
GCD(a, b) == IF b = 0 THEN a ELSE GCD(b, a % b)

Rat(n, d) == LET g == GCD(n, d) IN [num |-> n \div g, den |-> d \div g]

RatLeq(a, b) == a.num * b.den <= b.num * a.den

\* ((i + completedSubtitlesCount / validSubtitles.length) / totalFiles) * 100
GlobalProgress(idx, completed, valid, totalFiles) ==
    Rat((idx * valid + completed) * 100, totalFiles * valid)

\* Math.min(globalProgress, 99)
CapProgress(g) == IF RatLeq(g, Rat(PROGRESS_CAP, 1)) THEN g ELSE Rat(PROGRESS_CAP, 1)

\* ------------------------------------------------------------ file items
\* a FileItem; `file` is the upload, named by its document, and wordCount
\* (a count over the rebuilt text) is left out with that text's content
FileItem(n, doc) ==
    [id |-> n, file |-> doc, status |-> "pending", originalText |-> "",
     translatedText |-> NULL, error |-> NULL]

\* the uploads of small documents a user picks from: the two documents in
\* turn, starting with either
FileLists ==
    { [n \in 1..len |-> FileItem(n, IF n % 2 = 1 THEN first
                                    ELSE CHOOSE d \in DocNames : d # first)]
        : len \in 1..MaxFiles, first \in DocNames }

\* the large upload
BigFileList == <<FileItem(1, BigDoc)>>

\* prev.map(f => f.id === fileItem.id ? { ...f, status: 'processing' } : f)
MarkProcessing(prev, fileItem) ==
    [n \in DOMAIN prev |->
        IF prev[n].id = fileItem.id THEN [prev[n] EXCEPT !.status = "processing"]
        ELSE prev[n]]

\* prev.map(f => f.id === fileItem.id ? updatedItem : f)
MarkDone(prev, fileItem, text, finalText) ==
    LET updatedItem == [fileItem EXCEPT !.status = "done", !.originalText = text,
                                         !.translatedText = finalText]
    IN  [n \in DOMAIN prev |->
            IF prev[n].id = fileItem.id THEN updatedItem ELSE prev[n]]

\* prev.map(f => f.id === fileItem.id ? { ...f, status: 'error', error: e.message } : f)
MarkError(prev, fileItem, message) ==
    [n \in DOMAIN prev |->
        IF prev[n].id = fileItem.id
        THEN [prev[n] EXCEPT !.status = "error", !.error = message]
        ELSE prev[n]]

\* ---------------------------------------------------------------- history
\* Date.now() during a run
Now == 1000

\* a TranslationHistoryItem; id is the time stamp, date (the same instant as
\* a localized string) is left out
HistoryItem(stamp, name, from, to) ==
    [id |-> stamp, filename |-> name, from |-> from, to |-> to]

\* what localStorage held when the component mounted: n records, newest first
OldHistory(n) ==
    [j \in 1..n |-> HistoryItem(n - j + 1, "old.srt", "English", "Russian")]

\* a full store; onClear empties it
HistorySizes == {HISTORY_LIMIT}

\* [newItem, ...history].slice(0, 20), `history` being the closure's value
AddToHistory(closureHistory, newItem) ==
    Slice(<<newItem>> \o closureHistory, 0, HISTORY_LIMIT)

\* --------------------------------------------------------------- batching
\* the filter without its isMalformed test
IsTranslatableNoMalformed(p) ==
    ~p.isHeader /\ Len(Trim(p.text)) > 0

\* parsed.filter(p => !p.isHeader && !p.isMalformed && p.text.trim().length > 0)
IsTranslatable(p) ==
    ~p.isHeader /\ ~p.isMalformed /\ Len(Trim(p.text)) > 0

\* the indices lo..hi that pass the filter, in order (halving keeps the
\* evaluation shallow; the result is that of one left-to-right pass)
RECURSIVE FilterIndices(_, _, _)
FilterIndices(entries, lo, hi) ==
    IF lo > hi THEN <<>>
    ELSE IF lo = hi
         THEN IF IsTranslatable(entries[lo]) THEN <<lo>> ELSE <<>>
         ELSE LET mid == (lo + hi) \div 2
              IN  FilterIndices(entries, lo, mid) \o FilterIndices(entries, mid + 1, hi)

\* slices one entry too long, so that neighbours overlap
RECURSIVE MakeBatchesOverlap(_, _)
MakeBatchesOverlap(valid, j) ==
    IF j >= Len(valid) THEN <<>>
    ELSE <<Slice(valid, j, j + BATCH_SIZE + 1)>>
            \o MakeBatchesOverlap(valid, j + BATCH_SIZE)

\* for (j = 0; j < validSubtitles.length; j += BATCH_SIZE) batches.push(slice)
RECURSIVE MakeBatches(_, _)
MakeBatches(valid, j) ==
    IF j >= Len(valid) THEN <<>>
    ELSE <<Slice(valid, j, j + BATCH_SIZE)>> \o MakeBatches(valid, j + BATCH_SIZE)

\* batches.slice(k, k + CONCURRENT_LIMIT), as the 1-based batch numbers
Chunk(all, from) == (from + 1)..Min(from + CONCURRENT_LIMIT, Len(all))

\* batch.map(s => s.text)
TextsOf(entries, batch) == [p \in DOMAIN batch |-> entries[batch[p]].text]

\* translatedBatch[idx] ?? sub.text: an empty string is taken
TranslatedNullish(reply, idx, old) ==
    IF idx <= Len(reply) THEN reply[idx] ELSE old

\* translatedBatch[idx] || sub.text   (idx 1-based here)
Translated(reply, idx, old) ==
    IF idx <= Len(reply) /\ reply[idx] # <<>> THEN reply[idx] ELSE old

\* the reply written to parsed[idx], not to the batch's own entry
ApplyReplyParsedIndex(entries, batch, reply) ==
    [e \in DOMAIN entries |->
        IF e \in DOMAIN batch
        THEN [entries[e] EXCEPT !.text = Translated(reply, e, @)]
        ELSE entries[e]]

\* the reply read one position too far
ApplyReplyOffByOne(entries, batch, reply) ==
    LET touched == Range(batch)
    IN  [e \in DOMAIN entries |->
            IF e \in touched
            THEN LET idx == CHOOSE p \in DOMAIN batch : batch[p] = e
                 IN  [entries[e] EXCEPT !.text = Translated(reply, idx + 1, @)]
            ELSE entries[e]]

\* batch.forEach((sub, idx) => { sub.text = translatedBatch[idx] || sub.text })
\* (the batch holds each entry once, so each entry it names is assigned once,
\* from the position it has in the batch)
ApplyReply(entries, batch, reply) ==
    LET touched == Range(batch)
    IN  [e \in DOMAIN entries |->
            IF e \in touched
            THEN LET idx == CHOOSE p \in DOMAIN batch : batch[p] = e
                 IN  [entries[e] EXCEPT !.text = Translated(reply, idx, @)]
            ELSE entries[e]]

\* a catch that blanks the entries of the failed batch
BlankOnFailure(entries, batch) ==
    [e \in DOMAIN entries |->
        IF e \in Range(batch) THEN [entries[e] EXCEPT !.text = <<>>] ELSE entries[e]]

\* the catch of processBatch only logs: the entries stay as they are
KeepOriginal(entries, batch) == entries

\* Promise.all over the chunk resolves when no call of it is pending
WindowSettled(pending) == pending = {}

\* ------------------------------------------------ replies of translateBatch
\* how a call settled: resolved with an array of strings, or rejected
Resolved(reply) == [ok |-> TRUE, value |-> reply]
Rejected == [ok |-> FALSE, value |-> <<>>]

ReplyTexts == { <<>>, <<"x">>, <<"y">> }

Patchy(n) ==
    [p \in 1..(n - 1) |->
        IF p % 4 = 0 THEN <<>> ELSE IF p % 2 = 1 THEN <<"x">> ELSE <<"y">>]

Replies(texts) ==
    IF Len(texts) <= SmallBatch
    THEN UNION { [1..len -> ReplyTexts] : len \in 0..Len(texts) }
    ELSE { Patchy(Len(texts)) }

\* --------------------------------------------------- external collaborators
\* readFileAsText resolves with the raw text of the upload (named by the file)
ReadText(doc) == doc

\* reconstructSubtitles returns the rebuilt document; its content plays no
\* part in the orchestration, only that it is a string
ReconstructSubtitles(entries, filenameHint) == "reconstructed"

ReadError == "read failed"
ParseError == "parse failed"
ReconstructError == "reconstruct failed"
QuotaError == "QuotaExceededError"

\* what `catch (e: any)` can receive: an Error, a value that has no message
\* property (an event, a string), or null / undefined
ErrorValue(m) == [kind |-> "Error", message |-> m]
NoMessage == [kind |-> "object", message |-> UNDEFINED]
Nullish == [kind |-> "nullish", message |-> UNDEFINED]

\* the values a failing collaborator can throw or reject with
Throwables(m) == {ErrorValue(m), NoMessage, Nullish}

\* ------------------------------------------------------------------- runs
\* no value caught in the current iteration
NoCatch == [at |-> "none", value |-> [kind |-> "none", message |-> UNDEFINED]]

\* a slot that holds no invocation.  The fields of a live one: pc is its
\* position and handler the state of its promise; snapFiles, snapHistory,
\* snapSourceLang, snapTargetLang and snapRemoveSDH are `files`, `history`,
\* `sourceLang`, `targetLang` and `removeSDH` as its closure holds them; i is
\* the file loop index (0-based); caught is what the catch of the current
\* iteration received; parsed are the entries of the current file,
\* validSubtitles indices into parsed (shared objects), batches slices of
\* validSubtitles, k the window loop index (0-based); inflight are the pending
\* translateBatch calls, batchTexts and replies map a batch to the texts of
\* its call and to what the call settled with, dispatchLog lists the batches
\* handed to translateBatch in call order
Idle ==
    [pc |-> "idle", handler |-> "none",
     snapFiles |-> <<>>, snapHistory |-> <<>>, snapSourceLang |-> "",
     snapTargetLang |-> "", snapRemoveSDH |-> FALSE,
     i |-> 0, caught |-> NoCatch,
     parsed |-> <<>>, validSubtitles |-> <<>>, batches |-> <<>>, k |-> 0,
     completedSubtitlesCount |-> 0, inflight |-> {}, batchTexts |-> <<>>,
     replies |-> <<>>, dispatchLog |-> <<>>]

\* an invocation whose promise has settled: its closure and locals are gone
Over(outcome) == [Idle EXCEPT !.pc = "returned", !.handler = outcome]

\* an invocation that returned at one of the guards
Refused == [Idle EXCEPT !.pc = "refused", !.handler = "resolved"]

\* the block-scoped locals of one loop iteration go out of scope
DropLocals(R) ==
    [R EXCEPT !.parsed = <<>>, !.validSubtitles = <<>>, !.batches = <<>>,
              !.k = 0, !.completedSubtitlesCount = 0, !.inflight = {},
              !.batchTexts = <<>>, !.replies = <<>>, !.dispatchLog = <<>>]

Live(R) == R.pc \notin {"idle", "refused", "returned"}

FreeSlots == {r \in Slots : ~Live(runs[r])}

\* the slot the next invocation takes
NextSlot == CHOOSE r \in FreeSlots : \A q \in FreeSlots : r <= q

totalFiles(R) == Len(R.snapFiles)
fileItem(R) == R.snapFiles[R.i + 1]

\* the places of `files` that hold the file with this id
Shown(id) == {n \in DOMAIN files : files[n].id = id}

\* index the file loop continues with after the catch block
AfterCatch(idx, total) == idx + 1

\* a guard that lets equal languages through
StartAllowedAnyLanguages(uploads, source, target) == Len(uploads) # 0

\* neither early return of handleStartProcessing is taken
StartAllowed(uploads, source, target) ==
    Len(uploads) # 0 /\ source # target

\* a count that grows by the nominal batch size
CountAfterNominal(count, batch) == count + BATCH_SIZE

\* completedSubtitlesCount += batch.length
CountAfter(count, batch) == count + Len(batch)

\* ------------------------------------------------------------------- Init
\* the component as mounted, with the stored history loaded by its effect
InitWith(uploads, at, lists, events) ==
    /\ step = at
    /\ files = uploads
    /\ sourceLang = "English"
    /\ targetLang = "Uzbek"
    /\ isProcessing = FALSE
    /\ progress = Rat(0, 1)
    /\ currentProcessingFile = ""
    /\ history \in {OldHistory(n) : n \in HistorySizes}
    /\ runs = [r \in Slots |-> Idle]
    /\ shelf = lists
    /\ budget = events

Init ==
    /\ InitWith(<<>>, UPLOAD, FileLists, MaxClicks)
    /\ removeSDH = FALSE

\* the large file was uploaded and the settings section is shown; a small
\* file is at hand for a later upload
InitBig ==
    /\ InitWith(BigFileList, SETTINGS, { <<FileItem(1, "e.vtt")>> }, BigClicks)
    /\ removeSDH \in BOOLEAN

\* a small file was uploaded and the settings section is shown; the large
\* file is at hand for a later upload
InitReentry ==
    /\ InitWith(<<FileItem(2, "e.vtt")>>, SETTINGS, {BigFileList}, MaxClicks)
    /\ removeSDH = FALSE

\* -------------------------------------------------------- actions: a run
\* a user event within the budget
Click ==
    /\ budget > 0
    /\ budget' = budget - 1
    /\ shelf' = shelf

\* a step of a run: no user event
Quiet == UNCHANGED << shelf, budget >>

\* onStart: handleStartProcessing, the two early returns
StartRejected ==
    /\ step = SETTINGS
    /\ FreeSlots # {}
    /\ ~StartAllowed(files, sourceLang, targetLang)
    /\ Click
    /\ runs' = [runs EXCEPT ![NextSlot] = Refused]
    /\ UNCHANGED << files, uiVars, runVars, history >>

\* onStart: handleStartProcessing up to the head of the file loop
Start ==
    /\ step = SETTINGS
    /\ FreeSlots # {}
    /\ StartAllowed(files, sourceLang, targetLang)
    /\ Click
    /\ step' = RESULTS
    /\ isProcessing' = TRUE
    /\ progress' = Rat(0, 1)
    /\ runs' = [runs EXCEPT ![NextSlot] =
                   [Idle EXCEPT !.pc = "loop", !.handler = "pending",
                                !.snapFiles = files, !.snapHistory = history,
                                !.snapSourceLang = sourceLang,
                                !.snapTargetLang = targetLang,
                                !.snapRemoveSDH = removeSDH]]
    /\ UNCHANGED << files, uiVars, currentProcessingFile, history >>

\* one iteration of the file loop up to `await readFileAsText`
BeginFile(r) ==
    LET R == runs[r]
    IN  /\ R.pc = "loop"
        /\ R.i < totalFiles(R)
        /\ currentProcessingFile' = fileItem(R).file
        /\ files' = MarkProcessing(files, fileItem(R))
        /\ runs' = [runs EXCEPT ![r] = [R EXCEPT !.pc = "read", !.caught = NoCatch]]
        /\ Quiet
        /\ UNCHANGED << step, uiVars, isProcessing, progress, history >>

\* the file loop is over: setIsProcessing(false); setProgress(100)
Finish(r) ==
    LET R == runs[r]
    IN  /\ R.pc = "loop"
        /\ R.i >= totalFiles(R)
        /\ isProcessing' = FALSE
        /\ progress' = Rat(PROGRESS_DONE, 1)
        /\ runs' = [runs EXCEPT ![r] = Over("resolved")]
        /\ Quiet
        /\ UNCHANGED << step, files, uiVars, currentProcessingFile, history >>

\* catch (e) of the file loop, then the next iteration.  e.message stands in
\* the callback of prev.map: it is read only for an item of the current
\* `files` that has the id of fileItem.  Reading it of null or undefined
\* throws a TypeError.  Where the setter applies its updater at once the error
\* leaves the catch block and the promise of handleStartProcessing rejects;
\* where the updater runs at the next render setFiles has returned, the update
\* is lost with that render and the loop goes on
Catch(r, at, e) ==
    LET R == runs[r]
        next == [DropLocals(R) EXCEPT !.pc = "loop",
                                      !.i = AfterCatch(R.i, totalFiles(R)),
                                      !.caught = [at |-> at, value |-> e]]
    IN  /\ IF e.kind = "nullish" /\ Shown(fileItem(R).id) # {}
           THEN /\ files' = files
                /\ runs' \in { [runs EXCEPT ![r] = Over("rejected")],
                               [runs EXCEPT ![r] = next] }
           ELSE /\ files' = MarkError(files, fileItem(R), e.message)
                /\ runs' = [runs EXCEPT ![r] = next]
        /\ Quiet
        /\ UNCHANGED << step, uiVars, isProcessing, progress,
                        currentProcessingFile, history >>

ReadRejects(r) ==
    /\ runs[r].pc = "read"
    /\ \E e \in Throwables(ReadError) : Catch(r, "read", e)

ParseThrows(r) ==
    /\ runs[r].pc = "read"
    /\ \E e \in Throwables(ParseError) : Catch(r, "parse", e)

\* read resolved: parse, strip, filter, build the batches
ReadResolves(r) ==
    LET R == runs[r]
        text == ReadText(fileItem(R).file)
        stripped == RemoveSDHStep(ParseOutput(text), R.snapRemoveSDH)
        valid == FilterIndices(stripped, 1, Len(stripped))
    IN  /\ R.pc = "read"
        /\ runs' = [runs EXCEPT ![r] =
                       [R EXCEPT !.parsed = stripped, !.validSubtitles = valid,
                                 !.batches = MakeBatches(valid, 0),
                                 !.completedSubtitlesCount = 0, !.k = 0,
                                 !.pc = "window"]]
        /\ Quiet
        /\ UNCHANGED << step, files, uiVars, isProcessing, progress,
                        currentProcessingFile, history >>

\* one iteration of the window loop up to `await Promise.all`: every
\* processBatch of the chunk runs up to its `await translateBatch`
DispatchWindow(r) ==
    LET R == runs[r]
        chunk == Chunk(R.batches, R.k)
    IN  /\ R.pc = "window"
        /\ R.k < Len(R.batches)
        /\ runs' = [runs EXCEPT ![r] =
              [R EXCEPT
                 !.inflight = @ \cup {[file |-> fileItem(R).id, batch |-> b] : b \in chunk},
                 !.batchTexts = [b \in DOMAIN @ \cup chunk |->
                                    IF b \in chunk THEN TextsOf(R.parsed, R.batches[b])
                                    ELSE @[b]],
                 !.dispatchLog = @ \o [n \in 1..Cardinality(chunk) |-> R.k + n],
                 !.pc = "await"]]
        /\ Quiet
        /\ UNCHANGED << step, files, uiVars, isProcessing, progress,
                        currentProcessingFile, history >>

\* a translateBatch call has settled and left `entries`: finally of
\* processBatch, and the continuation of Promise.all
Finally(r, call, outcome, entries) ==
    LET R == runs[r]
        completed == CountAfter(R.completedSubtitlesCount, R.batches[call.batch])
        pending == R.inflight \ {call}
        settled == WindowSettled(pending)
    IN  /\ progress' = CapProgress(GlobalProgress(R.i, completed,
                                                  Len(R.validSubtitles),
                                                  totalFiles(R)))
        /\ runs' = [runs EXCEPT ![r] =
              [R EXCEPT
                 !.parsed = entries,
                 !.completedSubtitlesCount = completed,
                 !.inflight = pending,
                 !.replies = [b \in DOMAIN @ \cup {call.batch} |->
                                 IF b = call.batch THEN outcome ELSE @[b]],
                 !.k = IF settled THEN @ + CONCURRENT_LIMIT ELSE @,
                 !.pc = IF settled THEN "window" ELSE "await"]]
        /\ Quiet
        /\ UNCHANGED << step, files, uiVars, isProcessing,
                        currentProcessingFile, history >>

\* a translateBatch call resolves
SettleResolves(r) ==
    LET R == runs[r]
    IN  /\ R.pc = "await"
        /\ \E call \in R.inflight :
             \E reply \in Replies(R.batchTexts[call.batch]) :
                Finally(r, call, Resolved(reply),
                        ApplyReply(R.parsed, R.batches[call.batch], reply))

\* a translateBatch call rejects
SettleRejects(r) ==
    LET R == runs[r]
    IN  /\ R.pc = "await"
        /\ \E call \in R.inflight :
                Finally(r, call, Rejected,
                        KeepOriginal(R.parsed, R.batches[call.batch]))

\* the window loop is over: reconstruct, mark done, addToHistory up to its
\* call of localStorage.setItem
Reconstruct(r) ==
    LET R == runs[r]
        text == ReadText(fileItem(R).file)
        finalText == ReconstructSubtitles(R.parsed, fileItem(R).file)
        newItem == HistoryItem(Now, fileItem(R).file, R.snapSourceLang,
                               R.snapTargetLang)
    IN  /\ R.pc = "window"
        /\ R.k >= Len(R.batches)
        /\ files' = MarkDone(files, fileItem(R), text, finalText)
        /\ history' = AddToHistory(R.snapHistory, newItem)
        /\ runs' = [runs EXCEPT ![r] = [R EXCEPT !.pc = "store"]]
        /\ Quiet
        /\ UNCHANGED << step, uiVars, isProcessing, progress,
                        currentProcessingFile >>

ReconstructThrows(r) ==
    /\ runs[r].pc = "window"
    /\ runs[r].k >= Len(runs[r].batches)
    /\ \E e \in Throwables(ReconstructError) : Catch(r, "reconstruct", e)

\* localStorage.setItem returned: the try block and the iteration are over
StoreReturns(r) ==
    LET R == runs[r]
    IN  /\ R.pc = "store"
        /\ runs' = [runs EXCEPT ![r] =
                       [DropLocals(R) EXCEPT !.pc = "loop", !.i = R.i + 1]]
        /\ Quiet
        /\ UNCHANGED << step, files, uiVars, isProcessing, progress,
                        currentProcessingFile, history >>

\* localStorage.setItem threw (the quota is used up): the catch of the file
\* loop runs after the updates of lines 172 and 75 were made
StoreThrows(r) ==
    /\ runs[r].pc = "store"
    /\ Catch(r, "store", ErrorValue(QuotaError))

\* ------------------------------------------------- actions: the user's events
\* setFiles of the upload section
Upload ==
    /\ step = UPLOAD
    /\ Click
    /\ \E list \in shelf : files' = list
    /\ UNCHANGED << uiVars, runVars, history, runs >>

\* onNext of the upload section
OnNext ==
    /\ step = UPLOAD
    /\ Click
    /\ step' = SETTINGS
    /\ UNCHANGED << files, uiVars, isProcessing, progress,
                    currentProcessingFile, history, runs >>

\* onBack of the settings section
OnBack ==
    /\ step = SETTINGS
    /\ Click
    /\ step' = UPLOAD
    /\ UNCHANGED << files, uiVars, isProcessing, progress,
                    currentProcessingFile, history, runs >>

\* setSourceLang of the settings section
SetSourceLang ==
    /\ step = SETTINGS
    /\ Click
    /\ \E l \in Languages \ {sourceLang} : sourceLang' = l
    /\ UNCHANGED << files, targetLang, removeSDH, runVars, history, runs >>

\* setTargetLang of the settings section
SetTargetLang ==
    /\ step = SETTINGS
    /\ Click
    /\ \E l \in Languages \ {targetLang} : targetLang' = l
    /\ UNCHANGED << files, sourceLang, removeSDH, runVars, history, runs >>

\* setRemoveSDH of the settings section
SetRemoveSDH ==
    /\ step = SETTINGS
    /\ Click
    /\ removeSDH' = ~removeSDH
    /\ UNCHANGED << files, sourceLang, targetLang, runVars, history, runs >>

\* onRestart of the results section
OnRestart ==
    /\ step = RESULTS
    /\ Click
    /\ files' = <<>>
    /\ step' = UPLOAD
    /\ UNCHANGED << uiVars, isProcessing, progress, currentProcessingFile,
                    history, runs >>

\* onClear of the history modal
OnClear ==
    /\ Click
    /\ history' = <<>>
    /\ UNCHANGED << files, uiVars, runVars, runs >>

Next ==
    \/ StartRejected
    \/ Start
    \/ \E r \in Slots :
          \/ BeginFile(r)
          \/ Finish(r)
          \/ ReadRejects(r)
          \/ ParseThrows(r)
          \/ ReadResolves(r)
          \/ DispatchWindow(r)
          \/ SettleResolves(r)
          \/ SettleRejects(r)
          \/ Reconstruct(r)
          \/ ReconstructThrows(r)
          \/ StoreReturns(r)
          \/ StoreThrows(r)
    \/ Upload
    \/ OnNext
    \/ OnBack
    \/ SetSourceLang
    \/ SetTargetLang
    \/ SetRemoveSDH
    \/ OnRestart
    \/ OnClear

Spec == Init /\ [][Next]_vars

\* the same program on an upload large enough for two windows of batches
SpecBig == InitBig /\ [][Next]_vars

\* the same program with a small upload at hand and the large one to follow,
\* so that the handler runs on the large one while its run on the small one
\* is suspended
SpecReentry == InitReentry /\ [][Next]_vars

\* ------------------------------------------------------------ properties
Terminal(status) == status \in {"done", "error"}

InPipeline(R) == R.pc \in {"window", "await"}

PipelineOver(R) == R.pc = "window" /\ R.k >= Len(R.batches)

\* the entries of the current file as the parser returned them
Parsed0(R) == ParseOutput(ReadText(fileItem(R).file))

\* the entries of the current file when its batches were formed
AtBatching(R) == RemoveSDHStep(Parsed0(R), R.snapRemoveSDH)

Dispatched(R) == DOMAIN R.batchTexts
Settled(R) == DOMAIN R.replies

WindowOf(b) == (b - 1) \div CONCURRENT_LIMIT

\* the step starts an invocation of the handler that gets past the guards
Starts == \E r \in Slots : ~Live(runs[r]) /\ Live(runs'[r])

\* the step is one of invocation r and ends it
Returns(r) == Live(runs[r]) /\ ~Live(runs'[r])

\* the step is the call of addToHistory by invocation r
Stores(r) == runs[r].pc # "store" /\ runs'[r].pc = "store"

\* C1: an entry that is a header, is malformed, or whose text is empty or
\* white space when the batches are formed is in no batch handed to
\* translateBatch, and no text handed over is empty or white space
C1_Exclusion ==
    \A r \in Slots :
        LET R == runs[r]
        IN  InPipeline(R) =>
               \A b \in Dispatched(R) :
                  /\ \A e \in DOMAIN R.parsed :
                        (\/ AtBatching(R)[e].isHeader
                         \/ AtBatching(R)[e].isMalformed
                         \/ Trim(AtBatching(R)[e].text) = <<>>)
                        => e \notin Range(R.batches[b])
                  /\ \A p \in DOMAIN R.batchTexts[b] :
                        Trim(R.batchTexts[b][p]) # <<>>

\* a call is pending for a file with a header, a malformed entry and a cue
\* that SDH stripping emptied
C1_Witness ==
    \E r \in Slots :
        LET R == runs[r]
        IN  /\ R.pc = "await"
            /\ R.snapRemoveSDH
            /\ \E e \in DOMAIN R.parsed : R.parsed[e].isHeader
            /\ \E e \in DOMAIN R.parsed : R.parsed[e].isMalformed
            /\ \E e \in DOMAIN R.parsed :
                  /\ ~R.parsed[e].isHeader /\ ~R.parsed[e].isMalformed
                  /\ R.parsed[e].text = <<>> /\ Parsed0(R)[e].text # <<>>

\* the step is the rejection of a translateBatch call of invocation r
Rejects(r) ==
    \E b \in Settled(runs'[r]) \ Settled(runs[r]) : ~runs'[r].replies[b].ok

\* C2: the entries of a batch whose call rejected keep the texts the call was
\* made with; the rejection changes no file and leaves the invocation in its
\* window loop; every batch is dispatched and settled before reconstruction,
\* and when every call rejected the entries handed to reconstruction are
\* those the pipeline started with
C2_BatchFallback ==
    /\ [](\A r \in Slots :
            LET R == runs[r]
            IN  InPipeline(R) =>
                  /\ \A b \in Settled(R) :
                        ~R.replies[b].ok
                           => TextsOf(R.parsed, R.batches[b]) = R.batchTexts[b]
                  /\ PipelineOver(R) => Settled(R) = DOMAIN R.batches
                  /\ (PipelineOver(R) /\ \A b \in Settled(R) : ~R.replies[b].ok)
                        => R.parsed = AtBatching(R))
    /\ [][ \A r \in Slots :
              (InPipeline(runs[r]) /\ InPipeline(runs'[r]) /\ Rejects(r)) =>
                 /\ files' = files
                 /\ runs'[r].caught = NoCatch
                 /\ runs'[r].i = runs[r].i ]_vars

\* both windows of the large file are over and every call rejected
C2_Witness ==
    \E r \in Slots :
        LET R == runs[r]
        IN  /\ PipelineOver(R)
            /\ Len(R.batches) > CONCURRENT_LIMIT
            /\ Settled(R) = DOMAIN R.batches
            /\ \A b \in Settled(R) : ~R.replies[b].ok

\* the text the entry at position p of settled batch b must hold, from the
\* reply alone
Outcome(R, b, p) ==
    IF R.replies[b].ok /\ p <= Len(R.replies[b].value)
                       /\ R.replies[b].value[p] # <<>>
    THEN R.replies[b].value[p]
    ELSE R.batchTexts[b][p]

\* C3: for every settled call that resolved, the entry that supplied input
\* position p holds output position p (or its own text when that is missing
\* or empty), whatever calls are still pending; and when the pipeline is over
\* every entry's text is the one the replies determine, for every order of
\* completion
C3_OrderPreservation ==
    \A r \in Slots :
        LET R == runs[r]
        IN  InPipeline(R) =>
              /\ \A b \in Settled(R) :
                    R.replies[b].ok =>
                       \A p \in DOMAIN R.batches[b] :
                          R.parsed[R.batches[b][p]].text = Outcome(R, b, p)
              /\ PipelineOver(R) =>
                    LET inBatch == UNION {Range(R.batches[b]) : b \in DOMAIN R.batches}
                    IN  /\ \A b \in DOMAIN R.batches :
                              /\ b \in Settled(R)
                              /\ \A p \in DOMAIN R.batches[b] :
                                    R.parsed[R.batches[b][p]].text = Outcome(R, b, p)
                        /\ \A e \in DOMAIN R.parsed \ inBatch :
                              R.parsed[e].text = AtBatching(R)[e].text

\* a later batch of the window resolved while an earlier one is still pending
C3_Witness ==
    \E r \in Slots :
        LET R == runs[r]
        IN  /\ R.pc = "await"
            /\ \E call \in R.inflight :
                  \E b \in Settled(R) :
                     b > call.batch /\ b > 1 /\ R.replies[b].ok

RECURSIVE InFlight(_)
\* the number of pending translateBatch calls of the invocations in slots
InFlight(slots) ==
    IF slots = {} THEN 0
    ELSE LET r == CHOOSE x \in slots : TRUE
         IN  Cardinality(runs[r].inflight) + InFlight(slots \ {r})

\* C4: at most CONCURRENT_LIMIT calls are pending, and a batch is dispatched
\* only when every batch of every earlier window has settled
C4_BoundedWindows ==
    /\ InFlight(Slots) <= CONCURRENT_LIMIT
    /\ \A r \in Slots :
          \A b \in Dispatched(runs[r]) :
             \A c \in DOMAIN runs[r].batches :
                WindowOf(c) < WindowOf(b) => c \in Settled(runs[r])

\* the file names of a history, newest first
Filenames(h) == [n \in DOMAIN h |-> h[n].filename]

\* C5: a file becomes done only with a record handed to addToHistory, and
\* each record handed over is put in front of the history as it is, cut to
\* HISTORY_LIMIT, so that no earlier record is lost but to that bound
C5_HistoryHoldsEveryDoneFile ==
    /\ [][ \A n \in DOMAIN files \cap DOMAIN files' :
              (files[n].status # "done" /\ files'[n].status = "done")
                 => \E r \in Slots : Stores(r) ]_vars
    /\ [][ \A r \in Slots :
              Stores(r) =>
                 Filenames(history') =
                    Slice(<<fileItem(runs[r]).file>> \o Filenames(history),
                          0, HISTORY_LIMIT) ]_vars

\* C6: with removeSDH enabled, header and malformed entries have the text
\* the parser gave them when the batches are formed
C6_SDHLeavesHeadersAlone ==
    \A r \in Slots :
        LET R == runs[r]
        IN  (InPipeline(R) /\ R.snapRemoveSDH) =>
               \A e \in DOMAIN R.parsed :
                  (R.parsed[e].isHeader \/ R.parsed[e].isMalformed)
                     => R.parsed[e].text = Parsed0(R)[e].text

\* C7: but for the start of a run progress never decreases, it is within
\* [0, 99] while some file is not yet done or error, and it is 100 only when
\* every file is done or error
C7_ProgressMonotoneCapped ==
    /\ [][Starts \/ RatLeq(progress, progress')]_vars
    /\ [](  (\E n \in DOMAIN files : ~Terminal(files[n].status))
               => /\ RatLeq(Rat(0, 1), progress)
                  /\ RatLeq(progress, Rat(PROGRESS_CAP, 1)))
    /\ [](  progress = Rat(PROGRESS_DONE, 1)
               => \A n \in DOMAIN files : Terminal(files[n].status))

\* C8: at most one file is in processing, a file has left pending only when
\* the file before it is done or error, and the pending read and every
\* pending translateBatch call belong to the file in processing
C8_SequentialFiles ==
    /\ Cardinality({n \in DOMAIN files : files[n].status = "processing"}) <= 1
    /\ \A n \in DOMAIN files :
          (n > 1 /\ files[n].status # "pending") => Terminal(files[n - 1].status)
    /\ \A r \in Slots :
          /\ \A call \in runs[r].inflight :
                \A n \in Shown(call.file) : files[n].status = "processing"
          /\ runs[r].pc = "read" =>
                \A n \in Shown(fileItem(runs[r]).id) :
                   files[n].status = "processing"

\* C9: a step of the handler changes a file's status only from pending to
\* processing, from processing to done and from processing to error
C9_StatusMachine ==
    [][ budget' = budget =>
           \A n \in DOMAIN files \cap DOMAIN files' :
              files'[n].status # files[n].status =>
                 << files[n].status, files'[n].status >> \in
                    { << "pending", "processing" >>,
                      << "processing", "done" >>,
                      << "processing", "error" >> } ]_vars

\* invocation r is back at the head of its file loop after its catch block ran
\* for a failed read, parse or reconstruct
Caught(R) ==
    /\ R.pc = "loop"
    /\ R.caught.at \in {"read", "parse", "reconstruct"}

\* C10: a file whose read, parse or reconstruct threw is in error with the
\* message of what was thrown and has no history record; the handler returns
\* only when it has taken up every file, and has by then brought every file
\* that did not throw to done
C10_ErrorContainment ==
    /\ [](\A r \in Slots :
            LET R == runs[r]
            IN  Caught(R) =>
                  \A n \in Shown(R.snapFiles[R.i].id) :
                        /\ files[n].status = "error"
                        /\ files[n].error = R.caught.value.message
                        /\ files[n].translatedText = NULL)
    /\ [][ \A r \in Slots :
              Returns(r) =>
                 /\ runs'[r].handler = "resolved"
                 /\ runs[r].i >= totalFiles(runs[r]) ]_vars
    /\ [][ \A r \in Slots :
              (runs[r].pc = "store" /\ runs'[r].pc = "loop"
                  /\ runs'[r].caught = NoCatch)
                 => \A n \in Shown(fileItem(runs[r]).id) :
                       files'[n].status = "done" ]_vars

\* C11: a file's translatedText is set only when its status is done, and its
\* error only when its status is error
C11_ResultFields ==
    \A n \in DOMAIN files :
        /\ files[n].translatedText # NULL => files[n].status = "done"
        /\ files[n].error # NULL => files[n].status = "error"

\* C12: after a call resolved, an entry whose reply position is missing or
\* holds the empty string keeps the text the call was made with, and no
\* translatable entry has empty text
C12_PerItemFallback ==
    \A r \in Slots :
        LET R == runs[r]
        IN  InPipeline(R) =>
              /\ \A b \in Settled(R) :
                    R.replies[b].ok =>
                       \A p \in DOMAIN R.batches[b] :
                          (p > Len(R.replies[b].value) \/ R.replies[b].value[p] = <<>>)
                             => R.parsed[R.batches[b][p]].text = R.batchTexts[b][p]
              /\ \A p \in DOMAIN R.validSubtitles :
                    R.parsed[R.validSubtitles[p]].text # <<>>

\* a call resolved with a reply that is short and holds an empty string
C12_Witness ==
    \E r \in Slots :
        LET R == runs[r]
        IN  /\ PipelineOver(R)
            /\ \E b \in Settled(R) :
                  /\ R.replies[b].ok
                  /\ Len(R.replies[b].value) < Len(R.batches[b])
                  /\ \E p \in DOMAIN R.replies[b].value : R.replies[b].value[p] = <<>>

RECURSIVE Flatten(_)
Flatten(seqs) ==
    IF seqs = <<>> THEN <<>> ELSE Head(seqs) \o Flatten(Tail(seqs))

\* C13: whenever the window loop is at its head (the batches were just
\* formed, or a window has settled) every batch holds between one and
\* BATCH_SIZE entries and the batches in order make up validSubtitles, which
\* right after the batches were formed is the translatable entries in source
\* order; no batch is handed to translateBatch twice, and when the pipeline
\* is over every batch was handed over
C13_BatchesPartition ==
    \A r \in Slots :
        LET R == runs[r]
        IN  InPipeline(R) =>
              /\ R.pc = "window" =>
                    /\ \A b \in DOMAIN R.batches :
                          Len(R.batches[b]) >= 1 /\ Len(R.batches[b]) <= BATCH_SIZE
                    /\ Flatten(R.batches) = R.validSubtitles
                    /\ \A p \in 1..(Len(R.validSubtitles) - 1) :
                          R.validSubtitles[p] < R.validSubtitles[p + 1]
              /\ (R.pc = "window" /\ R.k = 0) =>
                    Range(R.validSubtitles) =
                       {e \in DOMAIN R.parsed :
                           /\ ~R.parsed[e].isHeader
                           /\ ~R.parsed[e].isMalformed
                           /\ Trim(R.parsed[e].text) # <<>>}
              /\ \A m, n \in DOMAIN R.dispatchLog :
                    m # n => R.dispatchLog[m] # R.dispatchLog[n]
              /\ Range(R.dispatchLog) = Dispatched(R)
              /\ PipelineOver(R) => Range(R.dispatchLog) = DOMAIN R.batches

\* the six batches of the large file were each handed over
C13_Witness ==
    \E r \in Slots :
        LET R == runs[r]
        IN  /\ PipelineOver(R)
            /\ Len(R.batches) > CONCURRENT_LIMIT
            /\ Len(R.dispatchLog) = Len(R.batches)
            /\ Len(R.batches[Len(R.batches)]) < BATCH_SIZE

\* C14: when the handler returns from a run every file is done or error,
\* isProcessing is false and progress is 100; and a step of an invocation
\* that leaves a call of it pending hands no batch over, starts no file and
\* does not return
C14_RunCompletion ==
    /\ [][ \A r \in Slots :
              Returns(r) =>
                 /\ runs'[r].handler = "resolved"
                 /\ \A n \in DOMAIN files' : Terminal(files'[n].status)
                 /\ ~isProcessing'
                 /\ progress' = Rat(PROGRESS_DONE, 1) ]_vars
    /\ [][ \A r \in Slots :
              (runs[r].inflight # {} /\ runs'[r].inflight # {}) =>
                 /\ runs'[r].dispatchLog = runs[r].dispatchLog
                 /\ runs'[r].i = runs[r].i
                 /\ runs'[r].pc = "await" ]_vars

\* C15: the entries have the length and order of the parse output, with its
\* id, timestamp, isHeader and isMalformed, and outside the translatable
\* entries the text is the one held when the batches were formed
C15_StructurePreserved ==
    \A r \in Slots :
        LET R == runs[r]
        IN  InPipeline(R) =>
              /\ Len(R.parsed) = Len(Parsed0(R))
              /\ \A e \in DOMAIN R.parsed :
                    /\ R.parsed[e].id = Parsed0(R)[e].id
                    /\ R.parsed[e].timestamp = Parsed0(R)[e].timestamp
                    /\ R.parsed[e].isHeader = Parsed0(R)[e].isHeader
                    /\ R.parsed[e].isMalformed = Parsed0(R)[e].isMalformed
                    /\ e \notin Range(R.validSubtitles)
                          => R.parsed[e].text = AtBatching(R)[e].text

\* reconstruction is next, a cue was translated and the file has a header
\* and a malformed entry
C15_Witness ==
    \E r \in Slots :
        LET R == runs[r]
        IN  /\ PipelineOver(R)
            /\ \E e \in DOMAIN R.parsed : R.parsed[e].text # AtBatching(R)[e].text
            /\ \E e \in DOMAIN R.parsed : R.parsed[e].isHeader
            /\ \E e \in DOMAIN R.parsed : R.parsed[e].isMalformed

RECURSIVE SumLen(_, _)
SumLen(R, bs) ==
    IF bs = {} THEN 0
    ELSE LET b == CHOOSE x \in bs : TRUE
         IN  Len(R.batches[b]) + SumLen(R, bs \ {b})

\* C16: the completed count is the sum of the lengths of the settled
\* batches, never above the number of translatable entries, and equal to it
\* when the last window has settled
C16_ProgressAccounting ==
    \A r \in Slots :
        LET R == runs[r]
        IN  InPipeline(R) =>
              /\ R.completedSubtitlesCount = SumLen(R, Settled(R))
              /\ R.completedSubtitlesCount <= Len(R.validSubtitles)
              /\ PipelineOver(R) => R.completedSubtitlesCount = Len(R.validSubtitles)

\* both windows settled, with a rejected and a resolved call among them
C16_Witness ==
    \E r \in Slots :
        LET R == runs[r]
        IN  /\ PipelineOver(R)
            /\ Len(R.batches) > CONCURRENT_LIMIT
            /\ R.completedSubtitlesCount = Len(R.validSubtitles)
            /\ \E b \in Settled(R) : R.replies[b].ok
            /\ \E b \in Settled(R) : ~R.replies[b].ok

\* the step is an invocation of the handler that returns at a guard
Refuses == \E r \in Slots : runs[r].pc # "refused" /\ runs'[r].pc = "refused"

\* C17: no invocation of the handler with no files, or with equal languages,
\* gets past the guards, and one that returns at a guard leaves step, files,
\* isProcessing, progress and every other value as they were: no file leaves
\* pending, none is read and no batch is handed over
C17_StartGuard ==
    /\ [](\A r \in Slots :
            Live(runs[r]) =>
               /\ Len(runs[r].snapFiles) # 0
               /\ runs[r].snapSourceLang # runs[r].snapTargetLang)
    /\ [][ Refuses =>
              /\ Len(files) = 0 \/ sourceLang = targetLang
              /\ UNCHANGED << step, files, uiVars, isProcessing, progress,
                              currentProcessingFile, history >>
              /\ \A r \in Slots :
                    runs'[r] # runs[r] => ~Live(runs[r]) /\ runs'[r] = Refused ]_vars

\* the handler returned at once for uploads with equal languages
C17_Witness ==
    /\ \E r \in Slots : runs[r].pc = "refused"
    /\ Len(files) > 0
    /\ sourceLang = targetLang
    /\ step = SETTINGS
====
